---- MODULE Spec2Model ----
(***************************************************************************)
(* Captive stellar-core ledger backend                                     *)
(* (exp/ingest/ledgerbackend/captive_core_backend.go).                     *)
(*                                                                         *)
(* Three roles run concurrently: the consumer, which drives PrepareRange,  *)
(* GetLedger and Close; the read-ahead goroutine sendLedgerMeta (the       *)
(* Pump); and the child stellar-core process behind the runner.  Each      *)
(* step of the consumer and of the Pump touches the shared objects (the    *)
(* channels stop and metaC, the wait group, the runner) at most once, so   *)
(* the interleavings of the model are the interleavings of the program.    *)
(*                                                                         *)
(* A LedgerCloseMeta is modelled by its ledger sequence.  Program          *)
(* counters are named after the source line at which the step starts.      *)
(***************************************************************************)
EXTENDS Integers, Sequences, FiniteSets, TLC

\* ------------------------------------------------------------------------
\* Constants of the program

ledgersPerProcess == 17280

numCheckpointsLeeway == 10

readAheadBufferSize == 2

\* The checkpoint size is declared outside captive_core_backend.go.  The
\* model takes a checkpoint of 2 ledgers so that a checkpoint boundary lies
\* inside the explored range of sequences; every property below is stated
\* in terms of ledgersPerCheckpoint, never of its value.
ledgersPerCheckpoint == 2

\* ------------------------------------------------------------------------
\* Bounds of the exploration

\* Largest ledger sequence the consumer asks for.
MaxSeq == 7

\* Ledgers by which the consumer's largest request exceeds the archive.
Beyond == 2

\* ------------------------------------------------------------------------
\* Values

\* A nil *uint32 / nil *xdr.LedgerCloseMeta.
Nil == -1

Err(m) == [msg |-> m, wrap |-> <<>>, expected |-> 0, actual |-> 0]

NoErr == Err("nil")

\* errors.Wrap(e, w)
Wrap(e, w) == [e EXCEPT !.wrap = <<w>> \o @]

\* errors.Errorf("unexpected ledger (expected=%d actual=%d)", ...)
UnexpectedLedger(exp, act) ==
    [msg |-> "unexpected ledger", wrap |-> <<>>, expected |-> exp, actual |-> act]

\* errors.Errorf("sequence %d greater than max available %d", ...)
GreaterThanMax(n, m) ==
    [msg |-> "sequence greater than max available", wrap |-> <<>>,
     expected |-> m, actual |-> n]

\* metaResult{meta, err}
MetaResult(m, e) == [meta |-> m, err |-> e]

\* What a call hands back to its caller: (found, meta, err); a call that
\* returns only an error leaves found and meta at their zero values.
Ret(f, m, e) == [found |-> f, meta |-> m, err |-> e]

NoRet == Ret(FALSE, Nil, NoErr)

NoChild == [live |-> FALSE, next |-> 0, last |-> 0, hung |-> FALSE]

\* The record of the last call that returned to the consumer.
NoRes ==
    [op |-> "none", arg |-> 0, found |-> FALSE, meta |-> Nil, err |-> NoErr,
     cached |-> FALSE, reread |-> FALSE, afterPrepare |-> FALSE, inRange |-> FALSE,
     isLast |-> FALSE, restart |-> FALSE, leeway |-> FALSE]

NoRange == [from |-> 0, to |-> 0, next |-> 0, toInMax |-> FALSE]

VARIABLES
    \* captiveStellarCore
    nextLedger,     \* c.nextLedger; 0 is the closed sentinel
    lastLedger,     \* c.lastLedger; Nil when nil
    cachedMeta,     \* c.cachedMeta; Nil when nil
    stop,           \* c.stop: "nil", "open" or "closed"
    metaC,          \* the buffer of c.metaC
    metaCState,     \* c.metaC: "nil", "open" or "closed"
    wait,           \* the counter of c.wait
    \* the runner and its child process
    child,          \* [live, next, last, hung]: the child and what it has yet to write
    pipe,           \* whether getMetaPipe() is non-nil
    currentLedger,  \* has.CurrentLedger of the archive
    \* sendLedgerMeta
    pumpPc,         \* "done" when no goroutine is running
    pumpMeta,       \* the result the goroutine has read and not yet sent
    untilSequence,
    \* the consumer
    cpc,            \* "idle" between public operations
    frames,         \* return addresses of the calls in progress
    op,             \* the public operation in progress
    from, to,       \* PrepareRange's arguments
    sequence,       \* GetLedger's argument
    oNext, oLast,   \* openOfflineReplaySubprocess's arguments
    rv,             \* what the last call returned to its caller
    errOut,         \* GetLedger's errOut
    \* history, read by the properties only
    res,            \* the last public call's result
    prepared,       \* the range of the last successful PrepareRange, while
                    \* the calls since then are GetLedger(from), GetLedger(from+1), ...
    faulty,         \* the archive, the runner or the child has broken its contract
    closeFailed,    \* the runner has failed to close its child
    contiguous      \* every record pulled since the subprocess was opened was nextLedger

backend == <<nextLedger, lastLedger, cachedMeta, stop, metaC, metaCState, wait>>
runner == <<child, pipe, currentLedger>>
pump == <<pumpPc, pumpMeta, untilSequence>>
args == <<op, from, to, sequence, oNext, oLast>>
locals == <<args, rv, errOut>>
consumer == <<cpc, frames, locals>>
history == <<res, prepared, faulty, closeFailed, contiguous>>
vars == <<backend, runner, pump, consumer, history>>

\* ------------------------------------------------------------------------
\* Pure functions

\* An alignment that rounds nothing.
roundDownToFirstReplayAfterCheckpointStart_Identity(ledger) ==
    IF ledger = 0 THEN 1 ELSE ledger

roundDownToFirstReplayAfterCheckpointStart(ledger) ==
    LET v == (ledger \div ledgersPerCheckpoint) * ledgersPerCheckpoint
    IN  IF v = 0 THEN 1 ELSE v

\* A window with no lower end.
LedgerWithinCheckpoints_NoLower(ledger, numCheckpoints) ==
    ledger <= nextLedger + numCheckpoints * ledgersPerCheckpoint

LedgerWithinCheckpoints(ledger, numCheckpoints) ==
    /\ nextLedger <= ledger
    /\ ledger <= nextLedger + numCheckpoints * ledgersPerCheckpoint

IsClosed == nextLedger = 0

\* ------------------------------------------------------------------------
\* Initial state: NewCaptive

Init ==
    /\ nextLedger = 0
    /\ lastLedger = Nil
    /\ cachedMeta = Nil
    /\ stop = "nil"
    /\ metaC = <<>>
    /\ metaCState = "nil"
    /\ wait = 0
    /\ child = NoChild
    /\ pipe = FALSE
    /\ currentLedger = MaxSeq - Beyond
    /\ pumpPc = "done"
    /\ pumpMeta = MetaResult(Nil, NoErr)
    /\ untilSequence = 0
    /\ cpc = "idle"
    /\ frames = <<>>
    /\ op = "none"
    /\ from = 0
    /\ to = 0
    /\ sequence = 0
    /\ oNext = 0
    /\ oLast = 0
    /\ rv = NoRet
    /\ errOut = NoErr
    /\ res = NoRes
    /\ prepared = NoRange
    /\ faulty = FALSE
    /\ closeFailed = FALSE
    /\ contiguous = TRUE

\* ------------------------------------------------------------------------
\* Calls and returns of the consumer

\* A public operation returns to the consumer.
Idle(r) ==
    /\ cpc' = "idle"
    /\ frames' = <<>>
    /\ op' = "none"
    /\ from' = 0
    /\ to' = 0
    /\ sequence' = 0
    /\ oNext' = 0
    /\ oLast' = 0
    /\ rv' = NoRet
    /\ errOut' = NoErr
    /\ res' = r

\* An internal call returns r to the caller whose return address is on top.
ReturnToCaller(r) ==
    /\ cpc' = frames[Len(frames)]
    /\ frames' = SubSeq(frames, 1, Len(frames) - 1)
    /\ rv' = r

\* c.Close() is called; the caller resumes at label.
CallClose(label) ==
    /\ cpc' = "Close_309"
    /\ frames' = Append(frames, label)

\* GetLedger(s) returns r, to the consumer, or to PrepareRange (line 202) when
\* fr holds PrepareRange's return address; pr is the prepared range that the
\* call continues, if any.
ReturnGetLedger(s, fr, pr, r, isCached) ==
    IF fr = <<>>
    THEN /\ Idle([op |-> "GetLedger", arg |-> s, found |-> r.found,
                  meta |-> r.meta, err |-> r.err, cached |-> isCached,
                  reread |-> isCached /\ res.op = "GetLedger" /\ res.err = NoErr
                                /\ res.arg = s,
                  afterPrepare |-> pr # NoRange /\ pr.next = pr.from,
                  inRange |-> pr # NoRange /\ pr.toInMax /\ s <= pr.to,
                  isLast |-> pr # NoRange /\ pr.toInMax /\ s = pr.to,
                  restart |-> ~isCached /\ res.restart,
                  leeway |-> ~isCached /\ res.leeway])
         /\ prepared' = IF pr # NoRange /\ r.err = NoErr /\ s + 1 <= pr.to
                        THEN [pr EXCEPT !.next = @ + 1]
                        ELSE NoRange
    ELSE /\ cpc' = fr[Len(fr)]
         /\ frames' = SubSeq(fr, 1, Len(fr) - 1)
         /\ rv' = r
         /\ sequence' = 0
         /\ errOut' = NoErr
         /\ UNCHANGED <<op, from, to, oNext, oLast, res, prepared>>

\* PrepareRange returns e to the consumer.
ReturnPrepareRange(e) ==
    /\ Idle([NoRes EXCEPT !.op = "PrepareRange", !.arg = from, !.err = e])
    /\ prepared' = IF e = NoErr
                   THEN [from |-> from, to |-> to, next |-> from,
                         toInMax |-> to <= currentLedger]
                   ELSE NoRange

\* ------------------------------------------------------------------------
\* The consumer calls a public operation

\* A PrepareRange whose openOfflineReplaySubprocess does not start with c.Close().
Call_PrepareRange_NoClose(f, t) ==
    /\ cpc = "idle"
    /\ op' = "PrepareRange"
    /\ from' = f
    /\ to' = t
    /\ oNext' = f - 1
    /\ oLast' = t
    /\ frames' = <<"PrepareRange_194">>
    /\ cpc' = "open_105"
    /\ res' = NoRes
    /\ prepared' = NoRange
    /\ UNCHANGED <<backend, runner, pump, sequence, rv, errOut, faulty, closeFailed,
                   contiguous>>

\* PrepareRange(f, t), line 194: c.openOfflineReplaySubprocess(from-1, to),
\* which starts with c.Close() (line 104).
Call_PrepareRange(f, t) ==
    /\ cpc = "idle"
    /\ op' = "PrepareRange"
    /\ from' = f
    /\ to' = t
    /\ oNext' = f - 1
    /\ oLast' = t
    /\ frames' = <<"PrepareRange_194", "open_105">>
    /\ cpc' = "Close_309"
    /\ res' = NoRes
    /\ prepared' = NoRange
    /\ UNCHANGED <<backend, runner, pump, sequence, rv, errOut, faulty, closeFailed,
                   contiguous>>

\* Close(), line 308.
Call_Close ==
    /\ cpc = "idle"
    /\ op' = "Close"
    /\ cpc' = "Close_309"
    /\ res' = NoRes
    /\ prepared' = NoRange
    /\ UNCHANGED <<backend, runner, pump, frames, from, to, sequence, oNext, oLast,
                   rv, errOut, faulty, closeFailed, contiguous>>

\* ------------------------------------------------------------------------
\* Close (lines 308-336)

\* Close returns e: to the consumer when it was called by the consumer.
ReturnClose(e) ==
    IF frames = <<>>
    THEN /\ Idle([NoRes EXCEPT !.op = "Close", !.err = e])
         /\ UNCHANGED prepared
    ELSE /\ ReturnToCaller(Ret(FALSE, Nil, e))
         /\ UNCHANGED <<op, from, to, sequence, oNext, oLast, errOut, res, prepared>>

\* A Close that does not look at the sentinel.
Close_309_NoCheck ==
    /\ cpc = "Close_309"
    /\ nextLedger' = 0
    /\ IF stop = "nil"
       THEN /\ cpc' = "Close_329"
            /\ UNCHANGED stop
       ELSE /\ cpc' = IF stop = "closed" THEN "panic" ELSE "Close_319"
            /\ stop' = "closed"
    /\ UNCHANGED <<lastLedger, cachedMeta, metaC, metaCState, wait, runner, pump,
                   frames, locals, history>>

\* Lines 309-317: the closed check, the sentinel, close(c.stop).
Close_309 ==
    /\ cpc = "Close_309"
    /\ IF IsClosed
       THEN /\ ReturnClose(NoErr)
            /\ UNCHANGED <<backend, runner, pump, faulty, closeFailed, contiguous>>
       ELSE /\ nextLedger' = 0
            /\ IF stop = "nil"
               THEN /\ cpc' = "Close_329"
                    /\ UNCHANGED stop
               ELSE \* closing a closed channel panics
                    /\ cpc' = IF stop = "closed" THEN "panic" ELSE "Close_319"
                    /\ stop' = "closed"
            /\ UNCHANGED <<lastLedger, cachedMeta, metaC, metaCState, wait, runner, pump,
                           frames, locals, history>>

\* Lines 319-322: discard one pending result, without blocking.
Close_319 ==
    /\ cpc = "Close_319"
    /\ metaC' = IF metaC # <<>> THEN Tail(metaC) ELSE metaC
    /\ cpc' = "Close_325"
    /\ UNCHANGED <<nextLedger, lastLedger, cachedMeta, stop, metaCState, wait, runner,
                   pump, frames, locals, history>>

\* A Close that does not wait for the goroutine.
Close_325_NoWait ==
    /\ cpc = "Close_325"
    /\ cpc' = "Close_326"
    /\ UNCHANGED <<backend, runner, pump, frames, locals, history>>

\* Line 325: c.wait.Wait()
Close_325 ==
    /\ cpc = "Close_325"
    /\ wait = 0
    /\ cpc' = "Close_326"
    /\ UNCHANGED <<backend, runner, pump, frames, locals, history>>

\* stellarCoreRunner.close(): terminates and reaps the child and releases the
\* pipe; when the termination fails it reports an error and the child stays.
RunnerClose(ok) ==
    IF ok
    THEN /\ child' = NoChild
         /\ pipe' = FALSE
         /\ UNCHANGED <<faulty, closeFailed>>
    ELSE /\ child.live
         /\ faulty' = TRUE
         /\ closeFailed' = TRUE
         /\ UNCHANGED <<child, pipe>>

\* A Close that leaves the runner alone.
CloseRunner_Skipped ==
    /\ lastLedger' = Nil
    /\ ReturnClose(NoErr)
    /\ UNCHANGED <<nextLedger, cachedMeta, stop, metaC, wait, runner, pump, faulty,
                   closeFailed, contiguous>>

\* Lines 329-335: c.lastLedger = nil, the runner is closed.
CloseRunner ==
    /\ lastLedger' = Nil
    /\ \E ok \in BOOLEAN :
          /\ RunnerClose(ok)
          /\ ReturnClose(IF ok THEN NoErr
                         ELSE Wrap(Err("runner close"),
                                   "error closing stellar-core subprocess"))
    /\ UNCHANGED <<nextLedger, cachedMeta, stop, metaC, wait, currentLedger, pump,
                   contiguous>>

\* Lines 326-335: after the wait close(c.metaC) (line 326), which is skipped
\* when c.stop is nil; then lines 329-335.
Close_326 ==
    /\ cpc \in {"Close_326", "Close_329"}
    /\ IF cpc = "Close_326"
       THEN /\ metaCState = "open"
            /\ metaCState' = "closed"
       ELSE UNCHANGED metaCState
    /\ CloseRunner

\* ------------------------------------------------------------------------
\* openOfflineReplaySubprocess (lines 103-136)

\* stellarCoreRunner.run(from, to): spawns the child, which replays the
\* inclusive range from the start of from's checkpoint through to; it fails
\* when a child is already live, or when the child cannot be spawned.
RunnerRun(nxt, lst, ok) ==
    IF ok
    THEN /\ ~child.live
         /\ child' = [live |-> TRUE,
                      next |-> roundDownToFirstReplayAfterCheckpointStart(nxt),
                      last |-> lst,
                      hung |-> FALSE]
         /\ pipe' = TRUE
         /\ UNCHANGED faulty
    ELSE /\ faulty' = TRUE
         /\ UNCHANGED <<child, pipe>>

\* GetLatestLedgerSequence (lines 278-291): the archive answers or fails.
GetLatestLedgerSequence(ok) ==
    IF ok THEN Ret(FALSE, currentLedger, NoErr) ELSE Ret(FALSE, 0, Err("archive"))

\* Lines 105-108: the archive query fails.
open_105_archive ==
    /\ cpc = "open_105"
    /\ ReturnToCaller(Ret(FALSE, Nil, Wrap(GetLatestLedgerSequence(FALSE).err,
                                           "getting latest ledger sequence")))
    /\ faulty' = TRUE
    /\ UNCHANGED <<backend, runner, pump, args, errOut, res, prepared, closeFailed,
                   contiguous>>

\* Lines 109-113: the first ledger is beyond the archive.
open_109 ==
    /\ cpc = "open_105"
    /\ LET maxLedger == GetLatestLedgerSequence(TRUE).meta
       IN  /\ oNext > maxLedger
           /\ ReturnToCaller(Ret(FALSE, Nil, GreaterThanMax(oNext, maxLedger)))
    /\ UNCHANGED <<backend, runner, pump, args, errOut, history>>

\* Lines 114-121: the runner fails to start.
open_118 ==
    /\ cpc = "open_105"
    /\ LET maxLedger == GetLatestLedgerSequence(TRUE).meta
           clamped == IF oLast > maxLedger THEN maxLedger ELSE oLast
       IN  /\ oNext <= maxLedger
           /\ RunnerRun(oNext, clamped, FALSE)
           /\ ReturnToCaller(Ret(FALSE, Nil, Wrap(Err("runner run"),
                                                  "error running stellar-core")))
    /\ UNCHANGED <<backend, currentLedger, pump, args, errOut, res, prepared,
                   closeFailed, contiguous>>

\* Lines 114-135: the runner starts; the sentinel is left, the channels are
\* made and the goroutine is started.
open_125 ==
    /\ cpc = "open_105"
    /\ LET maxLedger == GetLatestLedgerSequence(TRUE).meta
           clamped == IF oLast > maxLedger THEN maxLedger ELSE oLast
       IN  /\ oNext <= maxLedger
           /\ RunnerRun(oNext, clamped, TRUE)
           /\ nextLedger' = roundDownToFirstReplayAfterCheckpointStart(oNext)
           /\ lastLedger' = clamped
           /\ untilSequence' = clamped
    /\ metaC' = <<>>
    /\ metaCState' = "open"
    /\ stop' = "open"
    /\ wait' = wait + 1
    /\ pumpPc' = "Pump_145"
    /\ pumpMeta' = MetaResult(Nil, NoErr)
    /\ contiguous' = TRUE
    /\ ReturnToCaller(NoRet)
    /\ UNCHANGED <<cachedMeta, currentLedger, args, errOut, res, prepared, closeFailed>>

\* ------------------------------------------------------------------------
\* GetLedger (lines 216-276)

\* GetLedger(s) finds the backend open and s outside the leeway window.
OutsideLeeway(s) ==
    /\ nextLedger # 0
    /\ \/ s < nextLedger
       \/ s > nextLedger + numCheckpointsLeeway * ledgersPerCheckpoint

\* GetLedger(s) finds the backend open, s inside the leeway window and not
\* beyond the last ledger of the subprocess.
InsideLeeway(s) ==
    /\ nextLedger # 0
    /\ nextLedger <= s
    /\ s <= nextLedger + numCheckpointsLeeway * ledgersPerCheckpoint
    /\ lastLedger # Nil /\ s <= lastLedger

\* A GetLedger that does not look at the cached record.
GetLedger_217_NoCache(s, fr) ==
    /\ sequence' = s
    /\ IF ~IsClosed /\ ~LedgerWithinCheckpoints(s, numCheckpointsLeeway)
       THEN cpc' = "Close_309" /\ frames' = Append(fr, "GetLedger_229")
       ELSE cpc' = "GetLedger_229" /\ frames' = fr
    /\ op' = IF fr = <<>> THEN "GetLedger" ELSE op
    /\ rv' = NoRet
    /\ res' = NoRes
    /\ prepared' = IF fr = <<>> /\ s # prepared.next THEN NoRange ELSE prepared
    /\ UNCHANGED <<from, to, oNext, oLast, errOut>>
    /\ UNCHANGED <<backend, runner, pump, faulty, closeFailed, contiguous>>

\* Lines 217-226 of GetLedger(s), called with the return addresses fr: the
\* cached record; out of range of the open subprocess.  These lines read
\* only fields that no other goroutine touches.
GetLedger_217(s, fr) ==
    LET pr == IF fr = <<>> /\ s # prepared.next THEN NoRange ELSE prepared
    IN  /\ IF cachedMeta # Nil /\ s = cachedMeta
           THEN ReturnGetLedger(s, fr, pr, Ret(TRUE, cachedMeta, NoErr), TRUE)
           ELSE /\ sequence' = s
                /\ IF ~IsClosed /\ ~LedgerWithinCheckpoints(s, numCheckpointsLeeway)
                   THEN cpc' = "Close_309" /\ frames' = Append(fr, "GetLedger_229")
                   ELSE cpc' = "GetLedger_229" /\ frames' = fr
                /\ op' = IF fr = <<>> THEN "GetLedger" ELSE op
                /\ rv' = NoRet
                /\ res' = [NoRes EXCEPT
                              !.restart = fr = <<>> /\ OutsideLeeway(s),
                              !.leeway = fr = <<>> /\ InsideLeeway(s)]
                /\ prepared' = pr
                /\ UNCHANGED <<from, to, oNext, oLast, errOut>>
        /\ UNCHANGED <<backend, runner, pump, faulty, closeFailed, contiguous>>

\* The consumer calls GetLedger(s).
Call_GetLedger(s) ==
    /\ cpc = "idle"
    /\ GetLedger_217(s, <<>>)

\* Lines 229-230: if closed, open; openOfflineReplaySubprocess starts with
\* c.Close() (line 104).
GetLedger_229 ==
    /\ cpc = "GetLedger_229"
    /\ IF IsClosed
       THEN /\ oNext' = sequence
            /\ oLast' = sequence + ledgersPerProcess
            /\ frames' = frames \o <<"GetLedger_230", "open_105">>
            /\ cpc' = "Close_309"
       ELSE /\ cpc' = "GetLedger_236"
            /\ UNCHANGED <<oNext, oLast, frames>>
    /\ rv' = NoRet
    /\ UNCHANGED <<backend, runner, pump, op, from, to, sequence, errOut, history>>

\* Lines 230-232, after openOfflineReplaySubprocess has returned.
GetLedger_230 ==
    /\ cpc = "GetLedger_230"
    /\ IF rv.err # NoErr
       THEN ReturnGetLedger(sequence, frames, prepared,
                            Ret(FALSE, Nil, Wrap(rv.err, "opening subprocess")), FALSE)
       ELSE /\ cpc' = "GetLedger_236"
            /\ rv' = NoRet
            /\ UNCHANGED <<frames, op, from, to, sequence, oNext, oLast, errOut,
                           res, prepared>>
    /\ UNCHANGED <<backend, runner, pump, faulty, closeFailed, contiguous>>

\* A GetLedger without the check of lines 236-238.
GetLedger_236_NoCheck ==
    /\ cpc = "GetLedger_236"
    /\ cpc' = "GetLedger_244"
    /\ UNCHANGED <<frames, locals, res, prepared>>
    /\ UNCHANGED <<backend, runner, pump, faulty, closeFailed, contiguous>>

\* Lines 236-238: the request must be within one checkpoint of nextLedger.
GetLedger_236 ==
    /\ cpc = "GetLedger_236"
    /\ IF ~LedgerWithinCheckpoints(sequence, 1)
       THEN ReturnGetLedger(sequence, frames, prepared,
                            Ret(FALSE, Nil, Err("unexpected subprocess next-ledger")),
                            FALSE)
       ELSE /\ cpc' = "GetLedger_244"
            /\ UNCHANGED <<frames, locals, res, prepared>>
    /\ UNCHANGED <<backend, runner, pump, faulty, closeFailed, contiguous>>

\* A gate that lets every record through.
Unexpected_Never(seq) == FALSE

\* Line 252: the record is not the one expected next.
Unexpected(seq) == seq # nextLedger

\* An increment that is lost.
Incremented_Lost(n) == n

\* Line 258: c.nextLedger++
Incremented(n) == n + 1

\* A comparison that misses the last ledger.
GotLastLedger_Strict(seq) == lastLedger # Nil /\ lastLedger < seq

\* Line 265: the record is the last one of the segment.
GotLastLedger(seq) == lastLedger # Nil /\ lastLedger = seq

\* Lines 244-270: one turn of the loop, on the result received from c.metaC.
GetLedger_244 ==
    /\ cpc = "GetLedger_244"
    /\ metaCState = "open"
    /\ metaC # <<>>
    /\ LET metaResult == Head(metaC)
           seq == metaResult.meta
       IN  /\ metaC' = Tail(metaC)
           /\ IF metaResult.err # NoErr
              THEN /\ errOut' = metaResult.err
                   /\ CallClose("GetLedger_275")
                   /\ UNCHANGED <<nextLedger, cachedMeta, contiguous>>
              ELSE /\ contiguous' = (contiguous /\ seq = nextLedger)
                   /\ IF Unexpected(seq)
                      THEN /\ errOut' = UnexpectedLedger(nextLedger, seq)
                           /\ CallClose("GetLedger_275")
                           /\ UNCHANGED <<nextLedger, cachedMeta>>
                      ELSE /\ nextLedger' = Incremented(nextLedger)
                           /\ IF seq = sequence
                              THEN /\ cachedMeta' = seq
                                   /\ IF GotLastLedger(seq)
                                      THEN CallClose("GetLedger_268")
                                      ELSE cpc' = "GetLedger_268" /\ UNCHANGED frames
                              ELSE /\ UNCHANGED <<cachedMeta, cpc, frames>>
                           /\ UNCHANGED errOut
    /\ UNCHANGED <<lastLedger, stop, metaCState, wait, runner, pump, op, from, to,
                   sequence, oNext, oLast, rv, res, prepared, faulty, closeFailed>>

\* Line 268: return true, *c.cachedMeta, nil
GetLedger_268 ==
    /\ cpc = "GetLedger_268"
    /\ ReturnGetLedger(sequence, frames, prepared, Ret(TRUE, cachedMeta, NoErr), FALSE)
    /\ UNCHANGED <<backend, runner, pump, faulty, closeFailed, contiguous>>

\* Line 275: return false, xdr.LedgerCloseMeta{}, errOut
GetLedger_275 ==
    /\ cpc = "GetLedger_275"
    /\ ReturnGetLedger(sequence, frames, prepared, Ret(FALSE, Nil, errOut), FALSE)
    /\ UNCHANGED <<backend, runner, pump, faulty, closeFailed, contiguous>>

\* ------------------------------------------------------------------------
\* PrepareRange (lines 189-208)

\* Lines 194-202, after openOfflineReplaySubprocess has returned; line 202
\* is c.GetLedger(from - 1).
PrepareRange_194 ==
    /\ cpc = "PrepareRange_194"
    /\ IF rv.err # NoErr
       THEN /\ ReturnPrepareRange(Wrap(rv.err, "opening subprocess"))
            /\ UNCHANGED <<backend, runner, pump, faulty, closeFailed, contiguous>>
       ELSE IF ~pipe
       THEN /\ ReturnPrepareRange(Err("missing metadata pipe"))
            /\ UNCHANGED <<backend, runner, pump, faulty, closeFailed, contiguous>>
       ELSE GetLedger_217(from - 1, <<"PrepareRange_202">>)

\* Lines 203-207, after GetLedger(from-1) has returned.
PrepareRange_202 ==
    /\ cpc = "PrepareRange_202"
    /\ ReturnPrepareRange(IF rv.err # NoErr
                          THEN Wrap(rv.err, "opening getting ledger from-1")
                          ELSE NoErr)
    /\ UNCHANGED <<backend, runner, pump, faulty, closeFailed, contiguous>>

\* ------------------------------------------------------------------------
\* The child process, as the runner's contract describes it

\* The child writes the next ledger of its range.
ChildWrites ==
    /\ child.live /\ ~child.hung
    /\ child.next <= child.last
    /\ child' = [child EXCEPT !.next = @ + 1]
    /\ UNCHANGED faulty

\* A child that breaks its contract: it leaves one ledger out.
ChildSkips ==
    /\ child.live /\ ~child.hung
    /\ child.next + 1 <= child.last
    /\ child' = [child EXCEPT !.next = @ + 2]
    /\ faulty' = TRUE

\* A child that breaks its contract: it writes a frame that does not decode.
ChildGarbles ==
    /\ child.live /\ ~child.hung
    /\ faulty' = TRUE
    /\ UNCHANGED child

\* The child exits once it has written its range.
ChildExit ==
    /\ child.live /\ ~child.hung
    /\ child.next > child.last
    /\ child' = NoChild
    /\ UNCHANGED <<pipe, currentLedger, backend, pump, consumer, history>>

\* A child that breaks its contract: it hangs; it writes nothing more and
\* does not exit until the runner terminates it.
ChildHangs ==
    /\ child.live /\ ~child.hung
    /\ child' = [child EXCEPT !.hung = TRUE]
    /\ faulty' = TRUE
    /\ UNCHANGED <<pipe, currentLedger, backend, pump, consumer, res, prepared,
                   closeFailed, contiguous>>

\* ------------------------------------------------------------------------
\* sendLedgerMeta (lines 140-170)

\* defer c.wait.Done()
PumpExit ==
    /\ pumpPc' = "done"
    /\ pumpMeta' = MetaResult(Nil, NoErr)
    /\ wait' = wait - 1

\* A send on a channel without a capacity.
PumpSend_Unbounded(r, nextPc) ==
    IF metaCState = "closed"
    THEN /\ pumpPc' = "panic"
         /\ UNCHANGED <<metaC, pumpMeta, wait>>
    ELSE /\ metaC' = Append(metaC, r)
         /\ IF nextPc = "done"
            THEN PumpExit
            ELSE pumpPc' = nextPc /\ pumpMeta' = MetaResult(Nil, NoErr) /\ UNCHANGED wait

\* c.metaC <- r; a send on a closed channel panics.
PumpSend(r, nextPc) ==
    IF metaCState = "closed"
    THEN /\ pumpPc' = "panic"
         /\ UNCHANGED <<metaC, pumpMeta, wait>>
    ELSE /\ Len(metaC) < readAheadBufferSize
         /\ metaC' = Append(metaC, r)
         /\ IF nextPc = "done"
            THEN PumpExit
            ELSE pumpPc' = nextPc /\ pumpMeta' = MetaResult(Nil, NoErr) /\ UNCHANGED wait

\* Lines 145-147: the stop channel is closed and the select takes it.
Pump_145_stop ==
    /\ pumpPc = "Pump_145"
    /\ stop = "closed"
    /\ PumpExit
    /\ UNCHANGED <<nextLedger, lastLedger, cachedMeta, stop, metaC, metaCState, runner,
                   untilSequence, consumer, history>>

\* Lines 148-151: the select takes its default case, or the ticker's case,
\* which it may take also when stop is closed; the goroutine goes on to the
\* read of line 152, where it no longer looks at stop.
Pump_148 ==
    /\ pumpPc = "Pump_145"
    /\ pumpPc' = "Pump_152"
    /\ UNCHANGED <<backend, runner, pumpMeta, untilSequence, consumer, history>>

\* Lines 152, 172-187: the read from the pipe returns a record; it blocks
\* while the child has written nothing.
Pump_152_meta ==
    /\ pumpPc = "Pump_152"
    /\ pipe
    /\ \/ ChildWrites /\ pumpMeta' = MetaResult(child.next, NoErr)
       \/ ChildSkips /\ pumpMeta' = MetaResult(child.next + 1, NoErr)
    /\ pumpPc' = "Pump_160"
    /\ UNCHANGED <<backend, pipe, currentLedger, untilSequence, consumer, res, prepared,
                   closeFailed, contiguous>>

\* Lines 152, 172-187: the read fails: no pipe, a frame that does not
\* decode, or the end of the stream once the child is gone.
Pump_152_err ==
    /\ pumpPc = "Pump_152"
    /\ IF ~pipe
       THEN /\ pumpMeta' = MetaResult(Nil, Err("missing metadata pipe"))
            /\ UNCHANGED <<child, faulty>>
       ELSE \/ /\ ChildGarbles
               /\ pumpMeta' = MetaResult(Nil, Wrap(Err("decode"),
                                   "unmarshalling framed LedgerCloseMeta"))
            \/ /\ ~child.live
               /\ pumpMeta' = MetaResult(Nil, Wrap(Err("EOF"), "got EOF from subprocess"))
               /\ UNCHANGED <<child, faulty>>
    /\ pumpPc' = "Pump_154"
    /\ UNCHANGED <<backend, pipe, currentLedger, untilSequence, consumer, res, prepared,
                   closeFailed, contiguous>>

\* Lines 154-158: the error is sent unless stop is closed; the goroutine ends.
Pump_154 ==
    /\ pumpPc = "Pump_154"
    /\ \/ /\ stop = "closed"
          /\ PumpExit
          /\ UNCHANGED metaC
       \/ PumpSend(pumpMeta, "done")
    /\ UNCHANGED <<nextLedger, lastLedger, cachedMeta, stop, metaCState, runner,
                   untilSequence, consumer, history>>

\* A goroutine that goes on after the last ledger.
ReachedUntil_Never(m) == FALSE

\* Line 165: meta.LedgerSequence() >= untilSequence
ReachedUntil(m) == m >= untilSequence

\* Lines 160-169: the record is sent unless stop is closed; the goroutine
\* ends after the record that reaches untilSequence.
Pump_160 ==
    /\ pumpPc = "Pump_160"
    /\ \/ /\ stop = "closed"
          /\ PumpExit
          /\ UNCHANGED metaC
       \/ PumpSend(pumpMeta, IF ReachedUntil(pumpMeta.meta) THEN "done" ELSE "Pump_145")
    /\ UNCHANGED <<nextLedger, lastLedger, cachedMeta, stop, metaCState, runner,
                   untilSequence, consumer, history>>

\* ------------------------------------------------------------------------
\* The specification

\* What the consumer asks for.
Froms == 1 .. MaxSeq
Tos == (MaxSeq - Beyond - 1) .. MaxSeq
Seqs == 0 .. MaxSeq

Consumer ==
    \/ \E f \in Froms, t \in Tos : Call_PrepareRange(f, t)
    \/ \E s \in Seqs : Call_GetLedger(s)
    \/ Call_Close
    \/ Close_309
    \/ Close_319
    \/ Close_325
    \/ Close_326
    \/ open_105_archive
    \/ open_109
    \/ open_118
    \/ open_125
    \/ PrepareRange_194
    \/ PrepareRange_202
    \/ GetLedger_229
    \/ GetLedger_230
    \/ GetLedger_236
    \/ GetLedger_244
    \/ GetLedger_268
    \/ GetLedger_275

Pump ==
    \/ Pump_145_stop
    \/ Pump_148
    \/ Pump_152_meta
    \/ Pump_152_err
    \/ Pump_154
    \/ Pump_160

Child ==
    \/ ChildExit
    \/ ChildHangs

Next == Consumer \/ Pump \/ Child

Spec == Init /\ [][Next]_vars

\* ------------------------------------------------------------------------
\* roundDownToFirstReplayAfterCheckpointStart on its own: line 126 applied to
\* every first ledger up to MaxAlign

\* Largest ledger that is aligned.
MaxAlign == 60

AlignInputs == 0 .. MaxAlign

AlignInit ==
    /\ oNext \in AlignInputs
    /\ nextLedger = 0
    /\ lastLedger = Nil
    /\ cachedMeta = Nil
    /\ stop = "nil"
    /\ metaC = <<>>
    /\ metaCState = "nil"
    /\ wait = 0
    /\ child = NoChild
    /\ pipe = FALSE
    /\ currentLedger = MaxAlign
    /\ pumpPc = "done"
    /\ pumpMeta = MetaResult(Nil, NoErr)
    /\ untilSequence = 0
    /\ cpc = "open_125"
    /\ frames = <<>>
    /\ op = "none"
    /\ from = 0
    /\ to = 0
    /\ sequence = 0
    /\ oLast = 0
    /\ rv = NoRet
    /\ errOut = NoErr
    /\ res = NoRes
    /\ prepared = NoRange
    /\ faulty = FALSE
    /\ closeFailed = FALSE
    /\ contiguous = TRUE

\* Line 126: c.nextLedger = roundDownToFirstReplayAfterCheckpointStart(nextLedger)
Align_126 ==
    /\ cpc = "open_125"
    /\ nextLedger' = roundDownToFirstReplayAfterCheckpointStart(oNext)
    /\ cpc' = "open_128"
    /\ UNCHANGED <<lastLedger, cachedMeta, stop, metaC, metaCState, wait, runner, pump,
                   frames, locals, history>>

AlignSpec == AlignInit /\ [][Align_126]_vars

\* ------------------------------------------------------------------------
\* Properties

\* The public operation o has returned and the consumer has called nothing since.
Returned(o) == cpc = "idle" /\ res.op = o

\* The last call returned (true, the record of the sequence asked for, nil).
Delivered == res.found /\ res.meta = res.arg /\ res.err = NoErr

\* C1: whenever PrepareRange(from, to) has returned nil, and the archive, the
\* runner and the child keep their contracts, the GetLedger(from) that
\* immediately follows returns (true, the record of sequence from, nil).
C1_NextGetLedgerDelivers ==
    (Returned("GetLedger") /\ res.afterPrepare /\ ~faulty) => Delivered

\* C2: after PrepareRange(from, to) has returned nil with to <= max, the calls
\* GetLedger(from), GetLedger(from+1), ..., GetLedger(to), made in that order,
\* each return (true, the record asked for, nil), and the backend is closed
\* when GetLedger(to) returns.
C2_RangeDelivered ==
    (Returned("GetLedger") /\ res.inRange /\ ~faulty)
        => (Delivered /\ (res.isLast => IsClosed))

\* The last ledger of a prepared range of several ledgers has been returned.
C2_Witness ==
    /\ Returned("GetLedger")
    /\ res.inRange /\ res.isLast /\ ~res.afterPrepare
    /\ ~faulty
    /\ Delivered
    /\ IsClosed

\* C3 as claimed, on the calls that receive their record from metaC: when
\* GetLedger(s) returns successfully the record's sequence is s and
\* nextLedger is s + 1.
C3_Contiguity ==
    (Returned("GetLedger") /\ res.err = NoErr /\ ~res.cached)
        => (res.meta = res.arg /\ nextLedger = res.arg + 1)

\* C3 as amended: when GetLedger(s) returns successfully the record's
\* sequence is s; if the record was received from metaC, nextLedger is s + 1,
\* unless s is the last ledger of the subprocess: the call has then closed
\* the backend and nextLedger is 0.
C3_ContiguityAmended ==
    (Returned("GetLedger") /\ res.err = NoErr)
        => /\ res.found
           /\ res.meta = res.arg
           /\ ~res.cached =>
                 nextLedger = IF res.arg = untilSequence THEN 0 ELSE res.arg + 1

\* A record that follows skipped records has been returned by an open backend.
C3_Witness ==
    /\ Returned("GetLedger")
    /\ res.err = NoErr /\ ~res.cached
    /\ res.arg > roundDownToFirstReplayAfterCheckpointStart(res.arg)
    /\ nextLedger = res.arg + 1

\* C4: when GetLedger(s) has just returned successfully, a second GetLedger(s)
\* returns at once the same record and no error; it receives nothing from
\* metaC, leaves nextLedger as it is, and starts and stops no subprocess.
C4_RereadIdempotent ==
    [][(Returned("GetLedger") /\ res.err = NoErr /\ Call_GetLedger(res.arg))
          => /\ cpc' = "idle"
             /\ res'.op = "GetLedger" /\ res'.arg = res.arg
             /\ res'.found /\ res'.meta = res.meta /\ res'.err = NoErr
             /\ res'.cached
             /\ UNCHANGED <<backend, runner, pump>>]_vars

\* GetLedger(s) has been called twice in a row, and the first call had closed
\* the backend.
C4_Witness ==
    /\ Returned("GetLedger")
    /\ res.reread
    /\ res.arg = untilSequence
    /\ IsClosed /\ stop = "closed"

\* C5: every GetLedger that returns an error has closed the backend: nextLedger
\* is 0, the goroutine has ended, and the child is gone (unless the runner
\* failed to close it).
C5_ErrorsClose ==
    (Returned("GetLedger") /\ res.err # NoErr)
        => (IsClosed /\ pumpPc = "done" /\ (child.live => closeFailed))

\* C6: every PrepareRange that returns an error leaves the backend closed:
\* nextLedger is 0, no goroutine is live, and no child is running (unless the
\* runner failed to close it).
C6_PrepareFailureCloses ==
    (Returned("PrepareRange") /\ res.err # NoErr)
        => (IsClosed /\ pumpPc = "done" /\ (child.live => closeFailed))

\* C7 as claimed: between public operations nextLedger is 0 if and only if no
\* goroutine is live and no child exists.
C7_ClosedSentinel ==
    (cpc = "idle" /\ ~faulty) => (IsClosed <=> (pumpPc = "done" /\ ~child.live))

\* C7 as amended: between public operations, if nextLedger is 0 then no
\* goroutine is live, and no child exists unless the runner failed to close it.
C7_ClosedImpliesNoPump ==
    (cpc = "idle" /\ IsClosed)
        => (pumpPc = "done" /\ wait = 0 /\ (child.live => closeFailed))

\* Close has returned to the consumer after stopping a subprocess.
C7_Witness ==
    /\ Returned("Close")
    /\ res.err = NoErr
    /\ IsClosed /\ stop = "closed" /\ metaCState = "closed"
    /\ ~child.live

\* Close has returned and no subprocess has been opened since.
CloseReturned ==
    IsClosed /\ cpc \notin {"Close_319", "Close_325", "Close_326", "Close_329"}

\* C8: once Close has returned, the goroutine has ended (the wait group is at
\* zero) and nothing more is sent on metaC.
C8_PumpShutdown ==
    /\ [](CloseReturned => (pumpPc = "done" /\ wait = 0))
    /\ [][CloseReturned => Len(metaC') <= Len(metaC)]_vars

\* Close has returned while a result that the goroutine sent was still in metaC.
C8_Witness ==
    /\ Returned("Close")
    /\ stop = "closed"
    /\ metaC # <<>>
    /\ pumpPc = "done"

\* C9: PrepareRange(from, to) with from beyond the archive's latest ledger
\* returns an error and leaves the backend closed.
C9_FromBeyondMaxFails ==
    (Returned("PrepareRange") /\ res.arg > currentLedger)
        => (res.err # NoErr /\ IsClosed)

\* GetLedger receives from metaC a record that is not nextLedger.
MismatchPulled ==
    /\ cpc = "GetLedger_244"
    /\ metaC # <<>>
    /\ Len(metaC') < Len(metaC)
    /\ Head(metaC).err = NoErr
    /\ Head(metaC).meta # nextLedger

\* C10: a record received from metaC whose sequence is not nextLedger makes
\* GetLedger return (false, _, "unexpected ledger") with the expected and the
\* actual sequence; nextLedger is not advanced and cachedMeta is not updated,
\* and the backend is closed on return.  No GetLedger returns a record
\* received from metaC unless every record received since the subprocess was
\* opened was nextLedger when it was received.
C10_GapIsAnError ==
    /\ []((Returned("GetLedger") /\ res.err.msg = "unexpected ledger")
            => (~res.found /\ res.err.expected # res.err.actual /\ IsClosed))
    /\ []((Returned("GetLedger") /\ res.err = NoErr /\ ~res.cached) => contiguous)
    /\ [][MismatchPulled
            => /\ nextLedger' = nextLedger
               /\ cachedMeta' = cachedMeta
               /\ errOut' = UnexpectedLedger(nextLedger, Head(metaC).meta)
               /\ cpc' = "Close_309"
               /\ frames'[Len(frames')] = "GetLedger_275"]_vars
    /\ [][errOut.msg = "unexpected ledger"
            => /\ cachedMeta' = cachedMeta
               /\ nextLedger' \in {nextLedger, 0}
               /\ cpc' = "idle" => (res'.err = errOut /\ nextLedger' = 0)]_vars

\* GetLedger has returned "unexpected ledger" for a child that left out a ledger.
C10_Witness ==
    /\ Returned("GetLedger")
    /\ res.err.msg = "unexpected ledger"
    /\ res.err.actual = res.err.expected + 1
    /\ IsClosed

C12_CloseIdempotent ==
    /\ [][Call_Close => UNCHANGED <<backend, runner, pump>>]_vars
    /\ [][(IsClosed /\ Close_309)
            => /\ UNCHANGED <<backend, runner, pump>>
               /\ IF frames = <<>>
                  THEN cpc' = "idle" /\ res'.op = "Close" /\ res'.err = NoErr
                  ELSE cpc' = frames[Len(frames)] /\ rv'.err = NoErr]_vars

\* Close has returned on a backend that was never opened.
C12_Witness ==
    /\ Returned("Close")
    /\ res.err = NoErr
    /\ stop = "nil" /\ metaCState = "nil"
    /\ IsClosed

\* The smaller of two numbers.
Min(a, b) == IF a <= b THEN a ELSE b

\* The consumer calls GetLedger(seq), not cached, on an open backend with seq
\* outside the leeway window.
RestartCalled == cpc = "idle" /\ cpc' # "idle" /\ res'.restart

C14_LeewayDelivers ==
    (Returned("GetLedger") /\ res.leeway /\ ~faulty) => Delivered

\* Line 126 has aligned the ledger oNext.
Aligned == cpc = "open_128"

\* C15 as claimed: the alignment of 1 is 1, and for every s > 0 the alignment
\* of s is floor(s / ledgersPerCheckpoint) * ledgersPerCheckpoint and is at
\* most s.
C15_Alignment ==
    Aligned =>
        /\ oNext = 1 => nextLedger = 1
        /\ oNext > 0 =>
              /\ nextLedger = (oNext \div ledgersPerCheckpoint) * ledgersPerCheckpoint
              /\ nextLedger <= oNext

\* C15 as amended: the alignment of every s below ledgersPerCheckpoint is 1;
\* for s >= ledgersPerCheckpoint it is the multiple of ledgersPerCheckpoint in
\* which s's checkpoint starts; and for s >= 1 it is at most s.
C15_AlignmentAmended ==
    Aligned =>
        /\ nextLedger >= 1
        /\ oNext < ledgersPerCheckpoint => nextLedger = 1
        /\ oNext >= ledgersPerCheckpoint =>
              /\ nextLedger % ledgersPerCheckpoint = 0
              /\ nextLedger <= oNext
              /\ oNext < nextLedger + ledgersPerCheckpoint
        /\ oNext >= 1 => nextLedger <= oNext

\* A ledger that is not the first of its checkpoint has been aligned, in a
\* checkpoint other than the first.
C15_Witness ==
    /\ Aligned
    /\ oNext > 2 * ledgersPerCheckpoint
    /\ nextLedger < oNext
    /\ nextLedger > ledgersPerCheckpoint

\* C16: a Close that has closed c.stop and waits for the goroutine is never
\* left waiting for a goroutine that cannot take a step, whatever the child
\* does: the goroutine ends at its next suspension point and Close returns.
C16_CloseNeverStuck ==
    cpc = "Close_325" => (wait = 0 \/ ENABLED Pump)

\* The results read from the pipe that the consumer has not received.
InFlight ==
    Len(metaC) + (IF pumpPc \in {"Pump_154", "Pump_160"} THEN 1 ELSE 0)

\* C17: at most readAheadBufferSize results are queued in metaC and at most
\* readAheadBufferSize + 1 are in flight between the pipe and the consumer;
\* while the goroutine holds a result it has not sent, nothing is read from
\* the child.
C17_BoundedBuffering ==
    /\ [](Len(metaC) <= readAheadBufferSize /\ InFlight <= readAheadBufferSize + 1)
    /\ [][(pumpPc \in {"Pump_154", "Pump_160"} /\ child.live /\ child'.live)
            => child'.next = child.next]_vars

\* metaC is full and the goroutine holds one more record.
C17_Witness ==
    /\ Len(metaC) = readAheadBufferSize
    /\ pumpPc = "Pump_160"
    /\ InFlight = readAheadBufferSize + 1

\* A result after which the goroutine sends nothing: an error, or a record
\* that reaches untilSequence.
Terminal(r) == r.err # NoErr \/ r.meta >= untilSequence

\* C18: the goroutine ends in the step in which it sends a record whose
\* sequence is at least lastLedger, or an error, and sends nothing after it:
\* such a result is the last one in metaC, and metaC holds at most one error.
C18_PumpStops ==
    /\ [](\A i \in 1 .. Len(metaC) - 1 : ~Terminal(metaC[i]))
    /\ []((metaC # <<>> /\ Terminal(metaC[Len(metaC)])) => pumpPc = "done")
    /\ [][pumpPc = "done" => Len(metaC') <= Len(metaC)]_vars

\* The goroutine has ended after sending the last ledger, with metaC full.
C18_Witness ==
    /\ Len(metaC) = readAheadBufferSize
    /\ metaC[Len(metaC)].err = NoErr
    /\ metaC[Len(metaC)].meta = untilSequence
    /\ pumpPc = "done"
    /\ ~IsClosed

\* C19: a GetLedger that waits on metaC, with the archive, the runner and the
\* child keeping their contracts, is never left waiting on an empty metaC
\* after the goroutine has ended: every GetLedger returns.
C19_GetLedgerNeverStuck ==
    (cpc = "GetLedger_244" /\ ~faulty) => (metaC # <<>> \/ pumpPc # "done")

\* openOfflineReplaySubprocess makes the channels and starts the goroutine.
Opens ==
    \/ wait' = wait + 1
    \/ stop' = "open" /\ stop # "open"
    \/ metaCState' = "open" /\ metaCState # "open"

\* C20: whatever the child does, no channel operation panics; at most one
\* goroutine is live; metaC is open while a goroutine is live and when Close
\* closes it; and the channels of a new subprocess are made only after the
\* goroutine of the one before has ended.
C20_NoPanic ==
    /\ [](cpc # "panic" /\ pumpPc # "panic")
    /\ [](wait \in {0, 1} /\ (wait = 1 <=> pumpPc # "done"))
    /\ [](pumpPc # "done" => metaCState = "open")
    /\ [](cpc = "Close_326" => (metaCState = "open" /\ stop = "closed"))
    /\ []((cpc = "Close_309" /\ ~IsClosed) => stop # "closed")
    /\ [][Opens => (pumpPc = "done" /\ wait = 0 /\ stop # "open"
                    /\ metaCState # "open")]_vars

\* A second subprocess is running: nextLedger is back at or before a ledger
\* that was returned earlier.
C20_Witness ==
    /\ pumpPc \in {"Pump_145", "Pump_152", "Pump_160"}
    /\ wait = 1
    /\ stop = "open"
    /\ cachedMeta # Nil
    /\ nextLedger # 0 /\ nextLedger <= cachedMeta

====
